---- MODULE Spec2Model ----
(***************************************************************************)
(* TrackMyMood: the sentiment scorer of the journal routes                 *)
(* (server/routes/journal.js, kept in src/server/models/JournalEntry.js    *)
(* lines 107-300) and the journal page that calls it                       *)
(* (src/src/pages/JournalEntry.tsx); the CRUD routes of the journal over   *)
(* the JournalEntry collection; PUT /users/me (same file, lines 50-106);   *)
(* and the AuthProvider of the client (src/unnamed/part_000).              *)
(*                                                                         *)
(* JavaScript numbers are modelled as exact rationals [num, den] in lowest *)
(* terms with den > 0; NaN is the pair with den = 0.  A string is a        *)
(* sequence of atoms: an atom is either a whole word (a run of word        *)
(* characters) or a single non-word character.                             *)
(***************************************************************************)
EXTENDS Integers, Sequences, FiniteSets, TLC

\* ---------------------------------------------------------------- bounds
\* longest request text, in atoms
MaxLen == 3
\* the scores handed to determineMood directly: n / d, |n| <= MaxNum, d <= MaxDen
MaxNum == 12
MaxDen == 4
\* longest text of the interleaved calls, in atoms
MaxCallLen == 1
\* the journal entries the collection can hold
MaxEntries == 2
\* the last tick of the server clock
MaxClock == 1
\* the requests of the AuthProvider that can be in flight at once
MaxRequests == 2
\* the debounced analyze requests of the page that can be in flight at once
MaxAnalyzing == 2

\* the most entries in one answer to the dashboard
MaxChart == 3

VARIABLES
  tokenizer, \* the module's WordTokenizer: the characters it splits on
  analyzer,  \* the module's SentimentAnalyzer: its vocabulary and negations
  req,       \* per caller, the body of its last POST /journal/analyze: [text |-> JSON value], or NoRequest
  res,       \* per caller, the response to it, or NoResponse
  locals,    \* the locals of the last analyzeSentiment call, or NotCalled
  scoreIn,   \* the argument of a direct determineMood call
  moodOut,   \* its result, or NoMood
  entries,   \* the JournalEntry collection: per id an entry, or NoEntry
  page,      \* the JournalEntry page of one browser tab, or Unmounted
  now,       \* Date.now() of the server, in ticks
  documentRemove, \* whether the installed mongoose has Document.prototype.remove
  api,       \* the last exchange with the journal routes, or NoExchange
  users,     \* the User collection: its documents [name, email] by _id, and whether email has a unique index
  updates,   \* per user id, the PUT /users/me handler serving it, or NoUpdate
  auth,      \* the AuthProvider of one browser tab, its localStorage and requests
             \* (a request is stale once logout() was called after it was sent;
             \* thrown is the error of the last rejected login or register)
  history,   \* the JournalHistory page of one browser tab, its time zone included
  dashboard  \* the Dashboard page of one browser tab, its clock included

scorerVars == <<tokenizer, analyzer, req, res, locals, scoreIn, moodOut>>

journalVars == <<now, documentRemove, api>>

usersVars == <<users, updates>>

viewVars == <<history, dashboard>>

vars == <<tokenizer, analyzer, req, res, locals, scoreIn, moodOut, entries, page,
          now, documentRemove, api, users, updates, auth, history, dashboard>>

\* the clients with a request to POST /journal/analyze
Callers == {"a", "b"}

NoRequest == [type |-> "none"]
NoResponse == [status |-> 0]
NotCalled == [called |-> FALSE]
NoMood == "none"
NoEntry == [user |-> "none"]
\* the place of a removed entry: its id is never handed out again
Removed == [user |-> "removed"]
NoExchange == [method |-> "none"]
NoUpdate == [pc |-> "idle"]
NoProvider == [mounted |-> FALSE]
Unmounted == [mounted |-> FALSE]

\* the ids the collection hands out
EntryIds == 1..MaxEntries

\* ------------------------------------------------------------- numbers
Abs(n) == IF n < 0 THEN -n ELSE n

RECURSIVE GCD(_, _)
GCD(a, b) == IF b = 0 THEN a ELSE GCD(b, a % b)

NaN == [num |-> 0, den |-> 0]

IsNaN(x) == x.den = 0

\* n / d in lowest terms, d > 0
Ratio(n, d) == LET g == GCD(Abs(n), d) IN [num |-> n \div g, den |-> d \div g]

Whole(n) == [num |-> n, den |-> 1]

Halves(n) == Ratio(n, 2)

\* JavaScript a / b for integers a, b >= 0 as they occur in getSentiment:
\* 0 / 0 is NaN
Divide(a, b) == IF b = 0 THEN NaN ELSE Ratio(a, b)

\* JavaScript a + b: NaN is absorbing
Plus(a, b) ==
  IF IsNaN(a) \/ IsNaN(b) THEN NaN
  ELSE Ratio(a.num * b.den + b.num * a.den, a.den * b.den)

\* JavaScript a > n/d for a literal n/d: false when a is NaN
GreaterThan(a, n, d) == ~IsNaN(a) /\ a.num * d > n * a.den

\* ------------------------------------------------------------- strings
\* word atoms (runs of [A-Za-z0-9_]) and non-word atoms
WordAtoms == {"happy", "Happy", "wonderful", "sad", "good", "not", "the", "7"}
OtherAtoms == {" ", "!", "EMOJI"}
Atoms == WordAtoms \cup OtherAtoms

RECURSIVE SeqsUpTo(_, _)
SeqsUpTo(S, n) ==
  IF n = 0 THEN {<<>>}
  ELSE LET shorter == SeqsUpTo(S, n - 1)
       IN shorter \cup {Append(s, a) : s \in {t \in shorter : Len(t) = n - 1}, a \in S}

Strings == SeqsUpTo(Atoms, MaxLen)

\* String.prototype.toLowerCase
LowerAtom(a) == IF a = "Happy" THEN "happy" ELSE IF a = "I" THEN "i" ELSE a

toLowerCase(s) == [i \in 1..Len(s) |-> LowerAtom(s[i])]

\* natural.WordTokenizer: split on runs of non-word characters and drop the
\* empty pieces.  A token is the sequence of the adjacent word atoms it is
\* made of: <<"happy">> is the word happy, <<"happy", "7">> the word happy7.
RECURSIVE Split(_, _, _, _)
Split(s, i, cur, acc) ==
  IF i > Len(s) THEN (IF cur = <<>> THEN acc ELSE Append(acc, cur))
  ELSE IF s[i] \in tokenizer.pattern
       THEN Split(s, i + 1, <<>>, IF cur = <<>> THEN acc ELSE Append(acc, cur))
       ELSE Split(s, i + 1, Append(cur, s[i]), acc)

tokenize(s) == Split(s, 1, <<>>, <<>>)

\* ---------------------------------------------------------- JSON values
Undefined == [type |-> "undefined"]
Null == [type |-> "null"]
Str(s) == [type |-> "string", chars |-> s]
Num(x) == [type |-> "number", val |-> x]
Bool(b) == [type |-> "boolean", val |-> b]
Obj == [type |-> "object"]

\* a boundary that only rejects a missing field
FalsyMissingOnly(v) == v.type \in {"undefined", "null"}

\* JavaScript !v
Falsy(v) ==
  \/ v.type \in {"undefined", "null"}
  \/ v.type = "string" /\ v.chars = <<>>
  \/ v.type = "number" /\ (IsNaN(v.val) \/ v.val.num = 0)
  \/ v.type = "boolean" /\ ~v.val

\* JSON.stringify of a number: NaN is written as null
JsonNumber(x) == IF IsNaN(x) THEN Null ELSE Num(x)

\* ------------------------------------------------------ sentiment scorer
\* the AFINN-165 polarity of the words of the model's vocabulary.  The
\* analyzer keys its vocabulary by Porter stem and looks a word up by itself
\* and then by its stem: for the word atoms of the model, none of them an
\* inflected form, that is a lookup of the word.
Afinn == [w \in {"happy", "excited", "wonderful", "sad", "good"} |->
            CASE w = "happy" -> 3
              [] w = "excited" -> 3
              [] w = "wonderful" -> 4
              [] w = "sad" -> -2
              [] w = "good" -> 3]

\* natural's English negation words that are atoms of the model
Negations == {"not"}

\* a token that is one word atom names that word; any longer token is a
\* word outside every list
IsWord(token, words) == Len(token) = 1 /\ token[1] \in words

\* natural.SentimentAnalyzer.getSentiment: the loop over the words.  A
\* negation word sets negator to -1 for the rest of the call; a word of the
\* vocabulary adds negator * polarity.
RECURSIVE SumPolarity(_, _, _, _)
SumPolarity(words, i, negator, score) ==
  IF i > Len(words) THEN score
  ELSE IF IsWord(words[i], analyzer.negations)
       THEN SumPolarity(words, i + 1, -1, score)
       ELSE IF IsWord(words[i], DOMAIN analyzer.vocabulary)
            THEN SumPolarity(words, i + 1, negator,
                             score + negator * analyzer.vocabulary[words[i][1]])
            ELSE SumPolarity(words, i + 1, negator, score)

\* the loop's count of hits: negation words and words of the vocabulary
Hits(words) ==
  Cardinality({i \in DOMAIN words :
                 IsWord(words[i], analyzer.negations)
                   \/ IsWord(words[i], DOMAIN analyzer.vocabulary)})

\* an average over the hits instead of over all the words
getSentimentPerHit(words) == Divide(SumPolarity(words, 1, 1, 0), Hits(words))

\* score = score / words.length
getSentiment(words) ==
  LET sum == SumPolarity(words, 1, 1, 0)
  IN Divide(sum, Len(words))

\* a positive list that lacks one keyword
positiveShort == {"happy", "joy", "wonderful", "love", "great", "amazing"}

positive == {"happy", "joy", "excited", "wonderful", "love", "great", "amazing"}

\* a negative list that shares a keyword with the positive list
negativeOverlap ==
  {"sad", "depressed", "anxious", "worried", "stressed", "angry", "upset", "happy"}

negative == {"sad", "depressed", "anxious", "worried", "stressed", "angry", "upset"}

\* an adjustment that counts each distinct token once
RECURSIVE AdjustmentHalvesUnique(_, _, _)
AdjustmentHalvesUnique(tokens, i, adj) ==
  IF i > Len(tokens) THEN adj
  ELSE IF \E j \in 1..(i - 1) : tokens[j] = tokens[i]
       THEN AdjustmentHalvesUnique(tokens, i + 1, adj)
       ELSE LET up == IF IsWord(tokens[i], positive) THEN adj + 1 ELSE adj
                down == IF IsWord(tokens[i], negative) THEN up - 1 ELSE up
            IN AdjustmentHalvesUnique(tokens, i + 1, down)

\* tokens.forEach(...): the adjustment in halves
RECURSIVE AdjustmentHalves(_, _, _)
AdjustmentHalves(tokens, i, adj) ==
  IF i > Len(tokens) THEN adj
  ELSE LET up == IF IsWord(tokens[i], positive) THEN adj + 1 ELSE adj
           down == IF IsWord(tokens[i], negative) THEN up - 1 ELSE up
       IN AdjustmentHalves(tokens, i + 1, down)

\* thresholds compared with >= instead of >
determineMoodInclusive(score) ==
  IF ~IsNaN(score) /\ ~GreaterThan(Whole(4), score.num, score.den) THEN "Ecstatic"
  ELSE IF ~IsNaN(score) /\ ~GreaterThan(Whole(2), score.num, score.den) THEN "Happy"
  ELSE IF ~IsNaN(score) /\ ~GreaterThan(Ratio(1, 2), score.num, score.den) THEN "Content"
  ELSE IF ~IsNaN(score) /\ ~GreaterThan(Ratio(-1, 2), score.num, score.den) THEN "Neutral"
  ELSE IF ~IsNaN(score) /\ ~GreaterThan(Whole(-2), score.num, score.den) THEN "Sad"
  ELSE IF ~IsNaN(score) /\ ~GreaterThan(Whole(-4), score.num, score.den) THEN "Depressed"
  ELSE "Very Depressed"

determineMood(score) ==
  IF GreaterThan(score, 4, 1) THEN "Ecstatic"
  ELSE IF GreaterThan(score, 2, 1) THEN "Happy"
  ELSE IF GreaterThan(score, 1, 2) THEN "Content"
  ELSE IF GreaterThan(score, -1, 2) THEN "Neutral"
  ELSE IF GreaterThan(score, -2, 1) THEN "Sad"
  ELSE IF GreaterThan(score, -4, 1) THEN "Depressed"
  ELSE "Very Depressed"

\* Math.round of a number that is not NaN: floor(x + 1/2)
Round(x) == Whole((2 * x.num + x.den) \div (2 * x.den))

\* the mood taken from the base score instead of the final score
analyzeSentimentBaseMood(text) ==
  IF text.type # "string" THEN [called |-> TRUE, threw |-> TRUE]
  ELSE LET tokens == tokenize(toLowerCase(text.chars))
           score == getSentiment(tokens)
           adjustment == Halves(AdjustmentHalves(tokens, 1, 0))
           finalScore == Plus(score, adjustment)
       IN [called |-> TRUE,
           threw |-> FALSE,
           tokens |-> tokens,
           score |-> score,
           adjustment |-> adjustment,
           result |-> [score |-> finalScore, mood |-> determineMood(score)]]

\* the final score rounded to an integer
analyzeSentimentRounded(text) ==
  IF text.type # "string" THEN [called |-> TRUE, threw |-> TRUE]
  ELSE LET tokens == tokenize(toLowerCase(text.chars))
           score == getSentiment(tokens)
           adjustment == Halves(AdjustmentHalves(tokens, 1, 0))
           sum == Plus(score, adjustment)
           finalScore == IF IsNaN(sum) THEN NaN ELSE Round(sum)
       IN [called |-> TRUE,
           threw |-> FALSE,
           tokens |-> tokens,
           score |-> score,
           adjustment |-> adjustment,
           result |-> [score |-> finalScore, mood |-> determineMood(finalScore)]]

\* the adjustment kept in a module-level variable that is never reset: every
\* call starts from the adjustment the last call ended with
analyzeSentimentShared(text) ==
  IF text.type # "string" THEN [called |-> TRUE, threw |-> TRUE]
  ELSE LET tokens == tokenize(toLowerCase(text.chars))
           score == getSentiment(tokens)
           before == IF locals.called /\ ~locals.threw
                     THEN (2 * locals.adjustment.num) \div locals.adjustment.den
                     ELSE 0
           adjustment == Halves(AdjustmentHalves(tokens, 1, before))
           finalScore == Plus(score, adjustment)
       IN [called |-> TRUE,
           threw |-> FALSE,
           tokens |-> tokens,
           score |-> score,
           adjustment |-> adjustment,
           result |-> [score |-> finalScore, mood |-> determineMood(finalScore)]]

\* analyzeSentiment(text): its locals and its result.  text.toLowerCase is
\* not a function unless text is a string: the call throws a TypeError.
analyzeSentiment(text) ==
  IF text.type # "string" THEN [called |-> TRUE, threw |-> TRUE]
  ELSE LET tokens == tokenize(toLowerCase(text.chars))
           score == getSentiment(tokens)
           adjustment == Halves(AdjustmentHalves(tokens, 1, 0))
           finalScore == Plus(score, adjustment)
       IN [called |-> TRUE,
           threw |-> FALSE,
           tokens |-> tokens,
           score |-> score,
           adjustment |-> adjustment,
           result |-> [score |-> finalScore, mood |-> determineMood(finalScore)]]

\* ------------------------------------------------- POST /journal/analyze
\* "I am so happy and excited today"
EndToEndText ==
  <<"I", " ", "am", " ", "so", " ", "happy", " ", "and", " ", "excited", " ", "today">>

\* the values a JSON body can carry in its text field
TextValues ==
  {Undefined, Null, Num(Whole(0)), Num(Whole(5)), Bool(TRUE), Bool(FALSE), Obj}
    \cup {Str(s) : s \in Strings}
    \cup {Str(EndToEndText)}

\* router.post('/analyze') on one request body: the response and the
\* locals of analyzeSentiment after it.  A handler that throws is answered
\* 500 by Express.
AnalyzeHandler(body) ==
  IF Falsy(body.text)
  THEN [res |-> [status |-> 400, body |-> [message |-> "Text is required"]],
        locals |-> locals]
  ELSE LET r == analyzeSentiment(body.text)
       IN [res |-> IF r.threw
                   THEN [status |-> 500]
                   ELSE [status |-> 200,
                         body |-> [score |-> JsonNumber(r.result.score),
                                   mood |-> r.result.mood]],
           locals |-> r]

\* the route serving the request of caller c
AnalyzeRoute(c) ==
  /\ req[c] # NoRequest
  /\ res[c] = NoResponse
  /\ res' = [res EXCEPT ![c] = AnalyzeHandler(req[c]).res]
  /\ locals' = AnalyzeHandler(req[c]).locals
  /\ UNCHANGED <<tokenizer, analyzer, req, scoreIn, moodOut, entries, page, journalVars, usersVars, auth, viewVars>>

\* the module-level objects after start-up
InitModule ==
  /\ tokenizer = [pattern |-> OtherAtoms]
  /\ analyzer = [vocabulary |-> Afinn, negations |-> Negations]

\* no request to the scorer
ScorerIdle ==
  /\ req = [c \in Callers |-> NoRequest]
  /\ res = [c \in Callers |-> NoResponse]
  /\ locals = NotCalled
  /\ scoreIn = NaN
  /\ moodOut = NoMood

\* no request to the journal routes; the clock at its start
JournalIdle ==
  /\ now = 0
  /\ documentRemove = TRUE
  /\ api = NoExchange

\* no user stored, no request to the users routes
UsersIdle ==
  /\ users = <<>>
  /\ updates = <<>>

\* no AuthProvider mounted
AuthIdle == auth = NoProvider

\* neither the JournalHistory page nor the Dashboard is open
ViewsIdle ==
  /\ history = Unmounted
  /\ dashboard = Unmounted

\* no journal entry stored, no journal page open, nothing else going on
InitIdle ==
  /\ entries = [i \in EntryIds |-> NoEntry]
  /\ page = Unmounted
  /\ JournalIdle
  /\ UsersIdle
  /\ AuthIdle
  /\ ViewsIdle

\* one request, of caller "a", with any text
Init ==
  /\ InitModule
  /\ InitIdle
  /\ req \in {[c \in Callers |-> IF c = "a" THEN [text |-> v] ELSE NoRequest] :
               v \in TextValues}
  /\ res = [c \in Callers |-> NoResponse]
  /\ locals = NotCalled
  /\ scoreIn = NaN
  /\ moodOut = NoMood

Next == \E c \in Callers : AnalyzeRoute(c)

Spec == Init /\ [][Next]_vars

\* ------------------------------------------- interleaved calls of callers
CallAtoms == {"happy", "not", "sad", " "}

CallValues == {Undefined, Num(Whole(5))} \cup {Str(s) : s \in SeqsUpTo(CallAtoms, MaxCallLen)}

\* caller c sends its next request once the last one is answered
PostAnalyze(c, v) ==
  /\ req[c] # NoRequest => res[c] # NoResponse
  /\ req' = [req EXCEPT ![c] = [text |-> v]]
  /\ res' = [res EXCEPT ![c] = NoResponse]
  /\ UNCHANGED <<tokenizer, analyzer, locals, scoreIn, moodOut, entries, page, journalVars, usersVars, auth, viewVars>>

InitCalls ==
  /\ InitModule
  /\ InitIdle
  /\ req = [c \in Callers |-> NoRequest]
  /\ res = [c \in Callers |-> NoResponse]
  /\ locals = NotCalled
  /\ scoreIn = NaN
  /\ moodOut = NoMood

NextCalls ==
  \/ \E c \in Callers : \E v \in CallValues : PostAnalyze(c, v)
  \/ \E c \in Callers : AnalyzeRoute(c)

SpecCalls == InitCalls /\ [][NextCalls]_vars

\* ------------------------------------------------ determineMood directly
Scores == {Ratio(n, d) : n \in -MaxNum..MaxNum, d \in 1..MaxDen} \cup {NaN}

DetermineMood ==
  /\ moodOut = NoMood
  /\ moodOut' = determineMood(scoreIn)
  /\ UNCHANGED <<tokenizer, analyzer, req, res, locals, scoreIn, entries, page, journalVars, usersVars, auth, viewVars>>

InitMood ==
  /\ InitModule
  /\ InitIdle
  /\ req = [c \in Callers |-> NoRequest]
  /\ res = [c \in Callers |-> NoResponse]
  /\ locals = NotCalled
  /\ scoreIn \in Scores
  /\ moodOut = NoMood

NextMood == DetermineMood

SpecMood == InitMood /\ [][NextMood]_vars

\* ------------------------------------------------------ journal entries
\* String.prototype.trim: leading and trailing blanks removed
RECURSIVE TrimStart(_)
TrimStart(s) == IF s # <<>> /\ Head(s) = " " THEN TrimStart(Tail(s)) ELSE s

RECURSIVE TrimEnd(_)
TrimEnd(s) ==
  IF s # <<>> /\ s[Len(s)] = " " THEN TrimEnd(SubSeq(s, 1, Len(s) - 1)) ELSE s

Trim(s) == TrimEnd(TrimStart(s))

\* String.prototype.length, in UTF-16 code units
AtomLength(a) ==
  CASE a \in {"happy", "Happy"} -> 5
    [] a = "wonderful" -> 9
    [] a = "excited" -> 7
    [] a = "today" -> 5
    [] a \in {"am", "so"} -> 2
    [] a = "good" -> 4
    [] a \in {"sad", "not", "the", "and"} -> 3
    [] a = "EMOJI" -> 2
    [] OTHER -> 1

RECURSIVE Length(_)
Length(s) == IF s = <<>> THEN 0 ELSE AtomLength(Head(s)) + Length(Tail(s))

\* JavaScript v || w
Or(v, w) == IF Falsy(v) THEN w ELSE v

\* a JSON array
Arr(items) == [type |-> "array", items |-> items]

\* a tags object with its three lists
Tags(emotions, people, activities) ==
  [type |-> "object", emotions |-> emotions, people |-> people, activities |-> activities]

NoTags == Tags(Arr(<<>>), Arr(<<>>), Arr(<<>>))

\* tags?.emotions and its like: a field of tags, undefined without tags
TagList(tags, field) == IF tags \in {Undefined, Null} THEN Undefined ELSE tags[field]

\* mongoose validation on save: title (trimmed by the schema), content,
\* sentimentScore and mood are required
Validates(e) ==
  /\ e.title.type = "string" /\ e.title.chars # <<>>
  /\ e.content.type = "string" /\ e.content.chars # <<>>
  /\ e.sentimentScore.type = "number"
  /\ e.mood.type = "string" /\ e.mood.chars # <<>>

\* the schema's trim: true on title
Cast(e) ==
  IF e.title.type = "string" THEN [e EXCEPT !.title = Str(Trim(e.title.chars))] ELSE e

FreeIds(store) == {i \in EntryIds : store[i] = NoEntry}

\* findById(id) finds a document
Found(store, id) == store[id] \notin {NoEntry, Removed}

\* router.post('/') for the authenticated user: the response and the
\* collection after it
PostJournal(store, user, body) ==
  IF Falsy(body.title) \/ Falsy(body.content)
  THEN [status |-> 400, message |-> "Title and content are required", entries |-> store]
  ELSE LET newEntry == Cast([user |-> user,
                             title |-> body.title,
                             content |-> body.content,
                             sentimentScore |-> Or(body.sentimentScore, Num(Whole(0))),
                             mood |-> Or(body.mood, Str(<<"Neutral">>)),
                             tags |-> Tags(Or(TagList(body.tags, "emotions"), Arr(<<>>)),
                                           Or(TagList(body.tags, "people"), Arr(<<>>)),
                                           Or(TagList(body.tags, "activities"), Arr(<<>>))),
                             createdAt |-> now,
                             updatedAt |-> now])
           id == CHOOSE i \in FreeIds(store) : \A j \in FreeIds(store) : i <= j
       IN IF Validates(newEntry)
          THEN [status |-> 201, message |-> "", entries |-> [store EXCEPT ![id] = newEntry]]
          ELSE [status |-> 500, message |-> "Server error", entries |-> store]

\* an update that skips the check of the owner
PutJournalAnyUser(store, user, id, body) ==
  IF ~Found(store, id)
  THEN [status |-> 404, message |-> "Entry not found", entries |-> store]
  ELSE [status |-> 200, message |-> "",
        entries |-> [store EXCEPT ![id].updatedAt = now,
                                  ![id].sentimentScore =
                                     IF body.sentimentScore # Undefined
                                     THEN body.sentimentScore ELSE @]]

\* an update that takes the score with ||, as it takes the other fields
PutJournalFalsyScore(store, user, id, body) ==
  IF ~Found(store, id)
  THEN [status |-> 404, message |-> "Entry not found", entries |-> store]
  ELSE IF store[id].user # user
  THEN [status |-> 403, message |-> "Not authorized", entries |-> store]
  ELSE LET entry == store[id]
           updated == Cast([entry EXCEPT
                              !.title = Or(body.title, entry.title),
                              !.content = Or(body.content, entry.content),
                              !.sentimentScore = Or(body.sentimentScore, entry.sentimentScore),
                              !.mood = Or(body.mood, entry.mood),
                              !.tags = IF Falsy(body.tags)
                                       THEN entry.tags
                                       ELSE Tags(Or(body.tags.emotions, entry.tags.emotions),
                                                 Or(body.tags.people, entry.tags.people),
                                                 Or(body.tags.activities, entry.tags.activities)),
                              !.updatedAt = now])
       IN IF Validates(updated)
          THEN [status |-> 200, message |-> "", entries |-> [store EXCEPT ![id] = updated]]
          ELSE [status |-> 500, message |-> "Server error", entries |-> store]

\* router.put('/:id') for the authenticated user
PutJournal(store, user, id, body) ==
  IF ~Found(store, id)
  THEN [status |-> 404, message |-> "Entry not found", entries |-> store]
  ELSE IF store[id].user # user
  THEN [status |-> 403, message |-> "Not authorized", entries |-> store]
  ELSE LET entry == store[id]
           updated == Cast([user |-> entry.user,
                            title |-> Or(body.title, entry.title),
                            content |-> Or(body.content, entry.content),
                            sentimentScore |-> IF body.sentimentScore # Undefined
                                               THEN body.sentimentScore
                                               ELSE entry.sentimentScore,
                            mood |-> Or(body.mood, entry.mood),
                            tags |-> IF Falsy(body.tags)
                                     THEN entry.tags
                                     ELSE Tags(Or(body.tags.emotions, entry.tags.emotions),
                                               Or(body.tags.people, entry.tags.people),
                                               Or(body.tags.activities, entry.tags.activities)),
                            createdAt |-> entry.createdAt,
                            updatedAt |-> now])
       IN IF Validates(updated)
          THEN [status |-> 200, message |-> "", entries |-> [store EXCEPT ![id] = updated]]
          ELSE [status |-> 500, message |-> "Server error", entries |-> store]

\* router.get('/:id') for the authenticated user
GetJournal(store, user, id) ==
  IF ~Found(store, id)
  THEN [status |-> 404, message |-> "Entry not found"]
  ELSE IF store[id].user # user
  THEN [status |-> 403, message |-> "Not authorized"]
  ELSE [status |-> 200, message |-> "", entry |-> store[id]]

\* a delete that answers without removing the document
DeleteJournalKeeps(store, user, id) ==
  IF ~Found(store, id)
  THEN [status |-> 404, message |-> "Entry not found", entries |-> store]
  ELSE IF store[id].user # user
  THEN [status |-> 403, message |-> "Not authorized", entries |-> store]
  ELSE [status |-> 200, message |-> "Entry removed", entries |-> store]

\* router.delete('/:id') for the authenticated user.  entry.remove() throws
\* a TypeError where the installed mongoose has no Document.prototype.remove
DeleteJournal(store, user, id) ==
  IF ~Found(store, id)
  THEN [status |-> 404, message |-> "Entry not found", entries |-> store]
  ELSE IF store[id].user # user
  THEN [status |-> 403, message |-> "Not authorized", entries |-> store]
  ELSE IF documentRemove
  THEN [status |-> 200, message |-> "Entry removed",
        entries |-> [store EXCEPT ![id] = Removed]]
  ELSE [status |-> 500, message |-> "Server error", entries |-> store]

\* find({ user }): the ids of the documents of the user
FindByUser(store, user) == {i \in EntryIds : Found(store, i) /\ store[i].user = user}

\* the orders of a set of ids
Orders(ids) ==
  {list \in [1..Cardinality(ids) -> ids] : \A i, j \in DOMAIN list : i # j => list[i] # list[j]}

\* sort({ createdAt: -1 }): newest first, documents of one createdAt in any order
SortedDescending(store, list) ==
  \A i, j \in DOMAIN list : i < j => store[list[i]].createdAt >= store[list[j]].createdAt

\* oldest first
SortedAscending(store, list) ==
  \A i, j \in DOMAIN list : i < j => store[list[i]].createdAt <= store[list[j]].createdAt

\* a list sorted by sort({ createdAt: 1 })
ListJournalAscending(store, user) ==
  {[status |-> 200, message |-> "",
    list |-> [k \in DOMAIN list |-> [id |-> list[k], doc |-> store[list[k]]]]] :
     list \in {l \in Orders(FindByUser(store, user)) : SortedAscending(store, l)}}

\* router.get('/') for the authenticated user: the responses it can give
ListJournal(store, user) ==
  {[status |-> 200, message |-> "",
    list |-> [k \in DOMAIN list |-> [id |-> list[k], doc |-> store[list[k]]]]] :
     list \in {l \in Orders(FindByUser(store, user)) : SortedDescending(store, l)}}

\* ------------------------------------------- clients of the journal routes
\* the users the auth middleware lets through (req.user.id)
ApiUsers == {"u1", "u2"}

\* a request body with its five fields
Body(title, content, sentimentScore, mood, tags) ==
  [title |-> title, content |-> content, sentimentScore |-> sentimentScore,
   mood |-> mood, tags |-> tags]

NoBody == Body(Undefined, Undefined, Undefined, Undefined, Undefined)

\* the bodies the clients post: nothing, the two required fields, and all
\* of score and mood as the client chose them
PostBodies ==
  { NoBody,
    Body(Str(<<"the">>), Str(<<"happy">>), Undefined, Undefined, Undefined),
    Body(Str(<<"the">>), Str(<<"happy">>), Num(Whole(5)), Str(<<"Sad">>), Undefined) }

\* the bodies the clients put: nothing, and a score alone
PutBodies ==
  { NoBody,
    Body(Undefined, Undefined, Num(Whole(0)), Undefined, Undefined) }

\* a millisecond passes
Tick ==
  /\ now < MaxClock
  /\ now' = now + 1
  /\ UNCHANGED <<scorerVars, entries, page, documentRemove, api, usersVars, auth, viewVars>>

\* POST /api/journal; the collection of the model has room for the entry
ApiPost(user, body) ==
  /\ FreeIds(entries) # {} \/ Falsy(body.title) \/ Falsy(body.content)
  /\ LET r == PostJournal(entries, user, body)
     IN /\ entries' = r.entries
        /\ api' = [method |-> "POST", user |-> user, id |-> 0, body |-> body,
                   status |-> r.status, message |-> r.message]
  /\ UNCHANGED <<scorerVars, page, now, documentRemove, usersVars, auth, viewVars>>

\* PUT /api/journal/:id
ApiPut(user, id, body) ==
  /\ LET r == PutJournal(entries, user, id, body)
     IN /\ entries' = r.entries
        /\ api' = [method |-> "PUT", user |-> user, id |-> id, body |-> body,
                   status |-> r.status, message |-> r.message]
  /\ UNCHANGED <<scorerVars, page, now, documentRemove, usersVars, auth, viewVars>>

\* GET /api/journal/:id
ApiGet(user, id) ==
  /\ LET r == GetJournal(entries, user, id)
     IN api' = [method |-> "GET", user |-> user, id |-> id, body |-> NoBody,
                status |-> r.status, message |-> r.message,
                doc |-> IF r.status = 200 THEN r.entry ELSE NoEntry]
  /\ UNCHANGED <<scorerVars, entries, page, now, documentRemove, usersVars, auth, viewVars>>

\* DELETE /api/journal/:id
ApiDelete(user, id) ==
  /\ LET r == DeleteJournal(entries, user, id)
     IN /\ entries' = r.entries
        /\ api' = [method |-> "DELETE", user |-> user, id |-> id, body |-> NoBody,
                   status |-> r.status, message |-> r.message]
  /\ UNCHANGED <<scorerVars, page, now, documentRemove, usersVars, auth, viewVars>>

\* GET /api/journal
ApiList(user) ==
  /\ \E r \in ListJournal(entries, user) :
       api' = [method |-> "LIST", user |-> user, id |-> 0, body |-> NoBody,
               status |-> r.status, message |-> r.message, list |-> r.list]
  /\ UNCHANGED <<scorerVars, entries, page, now, documentRemove, usersVars, auth, viewVars>>

InitApi ==
  /\ InitModule
  /\ ScorerIdle
  /\ entries = [i \in EntryIds |-> NoEntry]
  /\ page = Unmounted
  /\ now = 0
  /\ documentRemove \in BOOLEAN
  /\ api = NoExchange
  /\ UsersIdle
  /\ AuthIdle
  /\ ViewsIdle

NextApi ==
  \/ Tick
  \/ \E user \in ApiUsers : \E body \in PostBodies : ApiPost(user, body)
  \/ \E user \in ApiUsers : \E id \in EntryIds : \E body \in PutBodies : ApiPut(user, id, body)
  \/ \E user \in ApiUsers : \E id \in EntryIds : ApiGet(user, id)
  \/ \E user \in ApiUsers : \E id \in EntryIds : ApiDelete(user, id)
  \/ \E user \in ApiUsers : ApiList(user)

SpecApi == InitApi /\ [][NextApi]_vars

\* ------------------------------------------- one write, with any body
\* the bodies of a POST: fields missing, empty, blank, and given
WritePostBodies ==
  { NoBody,
    Body(Undefined, Str(<<"happy">>), Undefined, Undefined, Undefined),
    Body(Null, Str(<<"happy">>), Undefined, Undefined, Undefined),
    Body(Str(<<>>), Str(<<"happy">>), Undefined, Undefined, Undefined),
    Body(Str(<<" ">>), Str(<<"happy">>), Undefined, Undefined, Undefined),
    Body(Str(<<"the">>), Undefined, Undefined, Undefined, Undefined),
    Body(Str(<<"the">>), Str(<<>>), Num(Whole(5)), Str(<<"Happy">>), NoTags),
    Body(Str(<<"the">>), Str(<<" ">>), Undefined, Undefined, Undefined),
    Body(Str(<<"the">>), Str(<<"happy">>), Undefined, Undefined, Undefined),
    Body(Str(<<" ", "the">>), Str(<<"happy">>), Num(Whole(0)), Str(<<"Neutral">>), Null),
    Body(Str(<<"the">>), Str(<<"happy">>), Null, Str(<<>>),
         Tags(Undefined, Arr(<<>>), Undefined)),
    Body(Str(<<"the">>), Str(<<"happy">>), Num(Whole(5)), Str(<<"Sad">>),
         Tags(Arr(<<"joy">>), Undefined, Arr(<<"the">>))),
    Body(Str(<<"the">>), Str(<<"happy">>), Num(Halves(7)), Str(<<"Happy">>),
         Tags(Arr(<<"joy">>), Arr(<<"the">>), Arr(<<"good">>))) }

\* the bodies of a PUT: nothing, one field at a time, and all at once
WritePutBodies ==
  { NoBody,
    Body(Str(<<"sad">>), Undefined, Undefined, Undefined, Undefined),
    Body(Str(<<>>), Undefined, Undefined, Undefined, Undefined),
    Body(Str(<<" ">>), Undefined, Undefined, Undefined, Undefined),
    Body(Undefined, Str(<<"sad">>), Undefined, Undefined, Undefined),
    Body(Undefined, Str(<<>>), Undefined, Undefined, Undefined),
    Body(Undefined, Undefined, Num(Whole(0)), Undefined, Undefined),
    Body(Undefined, Undefined, Num(Whole(-3)), Undefined, Undefined),
    Body(Undefined, Undefined, Null, Undefined, Undefined),
    Body(Undefined, Undefined, Undefined, Str(<<"Content">>), Undefined),
    Body(Undefined, Undefined, Undefined, Str(<<>>), Undefined),
    Body(Undefined, Undefined, Undefined, Undefined, Null),
    Body(Undefined, Undefined, Undefined, Undefined, Tags(Arr(<<>>), Undefined, Undefined)),
    Body(Undefined, Undefined, Undefined, Undefined,
         Tags(Undefined, Arr(<<"sad">>), Arr(<<>>))),
    Body(Str(<<"sad">>), Str(<<"sad">>), Num(Whole(-3)), Str(<<"Depressed">>),
         Tags(Arr(<<"sad">>), Arr(<<>>), Arr(<<"the">>))) }

\* the collection before the write: empty, or holding the entry of one POST
InitWrite ==
  /\ InitModule
  /\ ScorerIdle
  /\ JournalIdle
  /\ UsersIdle
  /\ AuthIdle
  /\ ViewsIdle
  /\ page = Unmounted
  /\ entries \in {PostJournal([i \in EntryIds |-> NoEntry], user, body).entries :
                    user \in ApiUsers, body \in WritePostBodies}

NextWrite ==
  \/ Tick
  \/ /\ api = NoExchange
     /\ \E user \in ApiUsers : \E body \in WritePostBodies : ApiPost(user, body)
  \/ /\ api = NoExchange
     /\ \E user \in ApiUsers : \E id \in EntryIds : \E body \in WritePutBodies :
          ApiPut(user, id, body)

SpecWrite == InitWrite /\ [][NextWrite]_vars

\* ------------------------------------------------------ PUT /users/me
\* the emails a profile update asks for; "" is the one that skips the check
Emails == {Str(<<"a@x">>), Str(<<"b@x">>), Str(<<"c@x">>), Str(<<>>)}

\* the documents of a store whose email is the given one
WithEmail(store, email) == {u \in DOMAIN store.docs : store.docs[u].email = email}

\* router.put('/me') up to the await of findOne, which answers with any one
\* document of that email: the handler answers 400, or goes on to the update
PutMeCheck(user, name, email) ==
  /\ updates[user].pc # "checked"
  /\ \/ /\ ~Falsy(email)
        /\ \E existingUser \in WithEmail(users, email) : existingUser # user
        /\ updates' = [updates EXCEPT ![user] =
                         [pc |-> "done", name |-> name, email |-> email,
                          status |-> 400, message |-> "Email already in use"]]
     \/ /\ \/ Falsy(email)
           \/ WithEmail(users, email) = {}
           \/ user \in WithEmail(users, email)
        /\ updates' = [updates EXCEPT ![user] =
                         [pc |-> "checked", name |-> name, email |-> email]]
  /\ UNCHANGED <<scorerVars, entries, page, journalVars, users, auth, viewVars>>

\* router.put('/me') from findByIdAndUpdate on: $set of name and email, which
\* a unique index on email rejects with a duplicate key error (500)
PutMeUpdate(user) ==
  /\ updates[user].pc = "checked"
  /\ LET call == updates[user]
         duplicate == users.uniqueEmail /\ WithEmail(users, call.email) \ {user} # {}
     IN /\ users' = IF duplicate THEN users
                     ELSE [users EXCEPT !.docs[user] = [name |-> call.name, email |-> call.email]]
        /\ updates' = [updates EXCEPT ![user] =
                         IF duplicate
                         THEN [call EXCEPT !.pc = "done"] @@
                              [status |-> 500, message |-> "Server error"]
                         ELSE [call EXCEPT !.pc = "done"] @@ [status |-> 200, message |-> ""]]
  /\ UNCHANGED <<scorerVars, entries, page, journalVars, auth, viewVars>>

\* two users with distinct emails, no request
InitUsers ==
  /\ InitModule
  /\ ScorerIdle
  /\ JournalIdle
  /\ AuthIdle
  /\ ViewsIdle
  /\ entries = [i \in EntryIds |-> NoEntry]
  /\ page = Unmounted
  /\ users \in {[docs |-> [u \in ApiUsers |->
                             [name |-> Str(<<u>>),
                              email |-> IF u = "u1" THEN Str(<<"a@x">>) ELSE Str(<<"b@x">>)]],
                  uniqueEmail |-> unique] : unique \in BOOLEAN}
  /\ updates = [u \in ApiUsers |-> NoUpdate]

NextUsers ==
  \/ \E user \in ApiUsers : \E email \in Emails : PutMeCheck(user, Str(<<user>>), email)
  \/ \E user \in ApiUsers : PutMeUpdate(user)

SpecUsers == InitUsers /\ [][NextUsers]_vars

\* ------------------------------------------------------ the AuthProvider
\* the accounts of the server
Accounts == {"u1", "u2"}

\* the user object the server sends for an account
UserOf(account) == [type |-> "object", id |-> account]

\* the token the server signs for an account
TokenOf(account) == Str(<<"jwt", account>>)

\* the account a token was signed for
AccountOf(token) == token.chars[2]

\* err.response?.data?.message of a failed request: none, or the server's
ErrorMessages == {Undefined, Str(<<"Invalid credentials">>)}

\* a request sent now: the first free slot among those in flight
Request(a, kind, account) ==
  [id |-> CHOOSE i \in 1..MaxRequests :
            /\ \A q \in a.requests : q.id # i
            /\ \A j \in 1..(i - 1) : \E q \in a.requests : q.id = j,
   kind |-> kind, account |-> account, stale |-> FALSE]

\* the useEffect on [token], run when a render changed token: it sets or
\* deletes the Authorization header and calls fetchUser, which sends
\* GET /api/users/me with the token or, without one, ends the loading
TokenEffect(a, oldToken) ==
  IF a.token = oldToken
  THEN a
  ELSE IF Falsy(a.token)
  THEN [a EXCEPT !.header = Null, !.loading = FALSE]
  ELSE [a EXCEPT !.header = a.token,
                 !.requests = @ \cup {Request(a, "fetch", AccountOf(a.token))}]

\* the provider after mounting: token read from localStorage, the effect run
MountedProvider(stored) ==
  TokenEffect([mounted |-> TRUE, user |-> Null, token |-> stored, loading |-> TRUE,
               error |-> Null, storage |-> stored, header |-> Null, requests |-> {},
               thrown |-> Null],
              Undefined)

\* login(email, password) up to its await
Login(account) ==
  /\ auth.mounted
  /\ Cardinality(auth.requests) < MaxRequests
  /\ auth' = [auth EXCEPT !.loading = TRUE, !.error = Null,
                          !.requests = @ \cup {Request(auth, "login", account)}]
  /\ UNCHANGED <<scorerVars, entries, page, journalVars, usersVars, viewVars>>

\* register(name, email, password) up to its await
Register(account) ==
  /\ auth.mounted
  /\ Cardinality(auth.requests) < MaxRequests
  /\ auth' = [auth EXCEPT !.loading = TRUE, !.error = Null,
                          !.requests = @ \cup {Request(auth, "register", account)}]
  /\ UNCHANGED <<scorerVars, entries, page, journalVars, usersVars, viewVars>>

\* login or register after its await, the server having answered with a
\* token and a user
SessionArrives(r) ==
  /\ auth.mounted /\ r \in auth.requests /\ r.kind \in {"login", "register"}
  /\ auth' = TokenEffect([auth EXCEPT !.storage = TokenOf(r.account),
                                      !.token = TokenOf(r.account),
                                      !.user = UserOf(r.account),
                                      !.loading = FALSE,
                                      !.requests = @ \ {r}],
                         auth.token)
  /\ UNCHANGED <<scorerVars, entries, page, journalVars, usersVars, viewVars>>

\* const errorMsg = err.response?.data?.message || '... failed. Please try again.'
ErrorMsg(r, message) ==
  Or(message, IF r.kind = "login"
              THEN Str(<<"Login failed. Please try again.">>)
              ELSE Str(<<"Registration failed. Please try again.">>))

\* a catch block without the finally block after it
SessionFailsNoFinally(r, message) ==
  /\ auth.mounted /\ r \in auth.requests /\ r.kind \in {"login", "register"}
  /\ auth' = [auth EXCEPT !.error = ErrorMsg(r, message),
                          !.thrown = ErrorMsg(r, message),
                          !.requests = @ \ {r}]
  /\ UNCHANGED <<scorerVars, entries, page, journalVars, usersVars, viewVars>>

\* login or register after its await, the request having failed: the
\* message is set and the error thrown again
SessionFails(r, message) ==
  /\ auth.mounted /\ r \in auth.requests /\ r.kind \in {"login", "register"}
  /\ auth' = [auth EXCEPT !.error = ErrorMsg(r, message),
                          !.thrown = ErrorMsg(r, message),
                          !.loading = FALSE,
                          !.requests = @ \ {r}]
  /\ UNCHANGED <<scorerVars, entries, page, journalVars, usersVars, viewVars>>

\* fetchUser after its await, the server having answered with the user
FetchArrives(r) ==
  /\ auth.mounted /\ r \in auth.requests /\ r.kind = "fetch"
  /\ auth' = [auth EXCEPT !.user = UserOf(r.account),
                          !.loading = FALSE,
                          !.requests = @ \ {r}]
  /\ UNCHANGED <<scorerVars, entries, page, journalVars, usersVars, viewVars>>

\* fetchUser after its await, the request having failed
FetchFails(r) ==
  /\ auth.mounted /\ r \in auth.requests /\ r.kind = "fetch"
  /\ auth' = TokenEffect([auth EXCEPT !.storage = Null,
                                      !.token = Null,
                                      !.error = Str(<<"Session expired. Please login again.">>),
                                      !.loading = FALSE,
                                      !.requests = @ \ {r}],
                         auth.token)
  /\ UNCHANGED <<scorerVars, entries, page, journalVars, usersVars, viewVars>>

\* logout()
Logout ==
  /\ auth.mounted
  /\ auth' = TokenEffect([auth EXCEPT !.storage = Null, !.token = Null, !.user = Null,
                                      !.requests = {[r EXCEPT !.stale = TRUE] : r \in @}],
                         auth.token)
  /\ UNCHANGED <<scorerVars, entries, page, journalVars, usersVars, viewVars>>

InitAuth ==
  /\ InitModule
  /\ ScorerIdle
  /\ JournalIdle
  /\ UsersIdle
  /\ entries = [i \in EntryIds |-> NoEntry]
  /\ page = Unmounted
  /\ ViewsIdle
  /\ auth \in {MountedProvider(stored) : stored \in {Null} \cup {TokenOf(x) : x \in Accounts}}

NextAuth ==
  \/ \E account \in Accounts : Login(account)
  \/ \E account \in Accounts : Register(account)
  \/ \E r \in auth.requests : SessionArrives(r)
  \/ \E r \in auth.requests : \E message \in ErrorMessages : SessionFails(r, message)
  \/ \E r \in auth.requests : FetchArrives(r)
  \/ \E r \in auth.requests : FetchFails(r)
  \/ Logout

SpecAuth == InitAuth /\ [][NextAuth]_vars

\* the server, or the network layer of the browser, answers a request
Respond ==
  \E r \in auth.requests :
    \/ SessionArrives(r)
    \/ \E message \in ErrorMessages : SessionFails(r, message)
    \/ FetchArrives(r)
    \/ FetchFails(r)

\* every request in flight is answered in the end
SpecAuthLive == SpecAuth /\ WF_vars(Respond)

\* ------------------------------------------------------ the journal page
\* the user of the browser tab
PageUser == "u1"

\* the texts the user puts in the content field
PageTexts ==
  { <<>>, <<" ">>, <<"happy">>,
    <<"wonderful", " ", "sad">>,
    <<"wonderful", " ", "happy">>,
    <<"wonderful", "the">>,
    <<"EMOJI", "EMOJI", "EMOJI", "EMOJI", "EMOJI", "EMOJI">> }

PageTitles == {<<>>, <<"the">>}

\* formData.content.trim().length > 10
MinLength == 10

NoSubmit == [pc |-> "idle"]

\* setTimeout(..., 1000), in ms
Delay == 1000

\* the timer an effect run starts: the content of its render, the ms left
Timer(content) == [content |-> content, left |-> Delay]

\* an effect that starts a timer and returns no cleanup
ContentEffectNoCleanup(p, oldContent) ==
  IF p.formData.content = oldContent
  THEN p
  ELSE [p EXCEPT !.timers = @ \cup {Timer(p.formData.content)}]

\* the useEffect on [formData.content], run when a render changed the
\* content: the cleanup of the last run clears its timer, the new run
\* starts one
ContentEffect(p, oldContent) ==
  IF p.formData.content = oldContent
  THEN p
  ELSE [p EXCEPT !.timers = {t \in @ : t.content # oldContent}
                              \cup {Timer(p.formData.content)}]

isEditing == page.id # 0

\* the form is replaced by a spinner while loading && isEditing
FormShown == page.mounted /\ ~(page.loading /\ isEditing)

\* the entries an earlier save of the page can have left: scored content
StoredEntries ==
  {[user |-> PageUser,
    title |-> Str(<<"the">>),
    content |-> Str(t),
    sentimentScore |-> Num(analyzeSentiment(Str(t)).result.score),
    mood |-> Str(<<analyzeSentiment(Str(t)).result.mood>>),
    tags |-> NoTags,
    createdAt |-> 0,
    updatedAt |-> 0] :
     t \in {u \in PageTexts : Trim(u) # <<>> /\ tokenize(toLowerCase(u)) # <<>>}}

\* the page after mounting and its effects: a new entry (id 0), or entry 1
\* being fetched for editing; the debounce timer of the empty content runs
MountedPage(id) ==
  [mounted |-> TRUE,
   id |-> id,
   formData |-> [title |-> <<>>, content |-> <<>>, tags |-> NoTags],
   sentimentScore |-> Null,
   mood |-> Null,
   loading |-> id # 0,
   fetching |-> id # 0,
   error |-> "",
   timers |-> {Timer(<<>>)},
   analyzing |-> {},
   submit |-> NoSubmit]

\* fetchEntry: the response to GET /api/journal/:id
FetchEntryArrives ==
  /\ page.mounted /\ page.fetching
  /\ LET r == GetJournal(entries, PageUser, page.id)
     IN page' = IF r.status = 200
                THEN ContentEffect(
                       [page EXCEPT !.formData = [title |-> r.entry.title.chars,
                                                  content |-> r.entry.content.chars,
                                                  tags |-> r.entry.tags],
                                    !.sentimentScore = r.entry.sentimentScore,
                                    !.mood = r.entry.mood,
                                    !.loading = FALSE,
                                    !.fetching = FALSE],
                       page.formData.content)
                ELSE [page EXCEPT !.error = "Failed to load journal entry",
                                  !.loading = FALSE,
                                  !.fetching = FALSE]
  /\ UNCHANGED <<scorerVars, entries, journalVars, usersVars, auth, viewVars>>

\* handleInputChange on the title field
TypeTitle(value) ==
  /\ FormShown
  /\ value # page.formData.title
  /\ page' = [page EXCEPT !.formData.title = value]
  /\ UNCHANGED <<scorerVars, entries, journalVars, usersVars, auth, viewVars>>

\* handleInputChange on the content field; the effect on formData.content
\* clears the running timer and starts the next
TypeContent(value) ==
  /\ FormShown
  /\ value # page.formData.content
  /\ page' = ContentEffect([page EXCEPT !.formData.content = value], page.formData.content)
  /\ UNCHANGED <<scorerVars, entries, journalVars, usersVars, auth, viewVars>>

\* time passes on the page
Elapse(ms) ==
  /\ page.mounted
  /\ \E t \in page.timers : t.left > 0
  /\ page' = [page EXCEPT !.timers =
                 {[t EXCEPT !.left = IF @ > ms THEN @ - ms ELSE 0] : t \in @}]
  /\ UNCHANGED <<scorerVars, entries, journalVars, usersVars, auth, viewVars>>

\* a timer that ran out calls back: analyzeSentiment(formData.content), with
\* the content of the render that started it, posts it when it is long enough
DebounceFires(timer) ==
  /\ page.mounted /\ timer \in page.timers /\ timer.left = 0
  /\ LET text == timer.content
     IN IF Length(Trim(text)) > MinLength
        THEN /\ Cardinality(page.analyzing \cup {text}) <= MaxAnalyzing
             /\ page' = [page EXCEPT !.timers = @ \ {timer},
                                     !.analyzing = @ \cup {text}]
        ELSE page' = [page EXCEPT !.timers = @ \ {timer}]
  /\ UNCHANGED <<scorerVars, entries, journalVars, usersVars, auth, viewVars>>

\* the route serves a debounced request and analyzeSentiment (of the page)
\* takes the response
AnalysisArrives(text) ==
  /\ page.mounted /\ text \in page.analyzing
  /\ LET r == AnalyzeHandler([text |-> Str(text)])
     IN /\ locals' = r.locals
        /\ page' = IF r.res.status = 200
                   THEN [page EXCEPT !.analyzing = @ \ {text},
                                     !.sentimentScore = r.res.body.score,
                                     !.mood = Str(<<r.res.body.mood>>)]
                   ELSE [page EXCEPT !.analyzing = @ \ {text}]
  /\ UNCHANGED <<tokenizer, analyzer, req, res, scoreIn, moodOut, entries, journalVars, usersVars, auth, viewVars>>

\* handleSubmit up to its first await: the call keeps the formData,
\* sentimentScore and mood of the render it was created in
HandleSubmit ==
  /\ FormShown /\ ~page.loading
  /\ page.submit = NoSubmit
  /\ page' = IF Trim(page.formData.title) = <<>> \/ Trim(page.formData.content) = <<>>
             THEN [page EXCEPT !.error = "Title and content are required",
                               !.loading = FALSE]
             ELSE [page EXCEPT !.error = "",
                               !.loading = TRUE,
                               !.submit = [pc |-> IF Falsy(page.sentimentScore)
                                                THEN "analyze" ELSE "save",
                                           formData |-> page.formData,
                                           sentimentScore |-> page.sentimentScore,
                                           mood |-> page.mood]]
  /\ UNCHANGED <<scorerVars, entries, journalVars, usersVars, auth, viewVars>>

\* handleSubmit after the await of its own analyze request
SubmitAnalysisArrives ==
  /\ page.mounted /\ page.submit.pc = "analyze"
  /\ LET r == AnalyzeHandler([text |-> Str(page.submit.formData.content)])
     IN /\ locals' = r.locals
        /\ page' = IF r.res.status = 200
                   THEN [page EXCEPT !.sentimentScore = r.res.body.score,
                                     !.mood = Str(<<r.res.body.mood>>),
                                     !.submit.pc = "save"]
                   ELSE [page EXCEPT !.error = IF r.res.status = 400
                                               THEN r.res.body.message
                                               ELSE "Failed to save journal entry",
                                     !.loading = FALSE,
                                     !.submit = NoSubmit]
  /\ UNCHANGED <<tokenizer, analyzer, req, res, scoreIn, moodOut, entries, journalVars, usersVars, auth, viewVars>>

\* journalData = {...formData, sentimentScore, mood} of the call
JournalData(call) ==
  [title |-> Str(call.formData.title),
   content |-> Str(call.formData.content),
   tags |-> call.formData.tags,
   sentimentScore |-> call.sentimentScore,
   mood |-> call.mood]

\* the route serves the PUT or POST of handleSubmit; on success the page
\* navigates to the dashboard and is unmounted
SaveArrives ==
  /\ page.mounted /\ page.submit.pc = "save"
  /\ LET r == IF isEditing
              THEN PutJournal(entries, PageUser, page.id, JournalData(page.submit))
              ELSE PostJournal(entries, PageUser, JournalData(page.submit))
     IN /\ entries' = r.entries
        /\ page' = IF r.status \in {200, 201}
                   THEN Unmounted
                   ELSE [page EXCEPT !.error = r.message,
                                     !.loading = FALSE,
                                     !.submit = NoSubmit]
  /\ UNCHANGED <<scorerVars, journalVars, usersVars, auth, viewVars>>

InitPage ==
  /\ InitModule
  /\ ScorerIdle
  /\ JournalIdle
  /\ UsersIdle
  /\ AuthIdle
  /\ ViewsIdle
  /\ \/ /\ entries = [i \in EntryIds |-> NoEntry]
        /\ page = MountedPage(0)
     \/ /\ entries \in {[i \in EntryIds |-> IF i = 1 THEN e ELSE NoEntry] : e \in StoredEntries}
        /\ page = MountedPage(1)

NextPage ==
  \/ FetchEntryArrives
  \/ \E value \in PageTitles : TypeTitle(value)
  \/ \E value \in PageTexts : TypeContent(value)
  \/ \E ms \in {500, 1000} : Elapse(ms)
  \/ page.mounted /\ \E timer \in page.timers : DebounceFires(timer)
  \/ \E text \in PageTexts : AnalysisArrives(text)
  \/ HandleSubmit
  \/ SubmitAnalysisArrives
  \/ SaveArrives

SpecPage == InitPage /\ [][NextPage]_vars

\* the page with its live analysis alone, nothing submitted
NextLive ==
  \/ FetchEntryArrives
  \/ \E value \in PageTexts : TypeContent(value)
  \/ \E ms \in {500, 1000} : Elapse(ms)
  \/ page.mounted /\ \E timer \in page.timers : DebounceFires(timer)
  \/ \E text \in PageTexts : AnalysisArrives(text)

SpecLive == InitPage /\ [][NextLive]_vars

\* --------------------------------------------------- the JournalHistory page
\* Date values: instants are counted in half seconds since 2025-01-01T00:00:00Z,
\* the half second standing for the milliseconds within a second
Second == 2

Hour == 60 * 60 * Second

Day == 24 * Hour

\* the values of an <input type="date">, in day order; "" while it is empty
Days == <<"2025-01-02", "2025-01-03", "2025-01-04">>

\* the zones the browser may run in: local time minus UTC
TimeZones == {-5 * Hour, 0, 2 * Hour}

\* new Date("YYYY-MM-DD"): midnight of that day in UTC
NewDate(s) == (CHOOSE d \in DOMAIN Days : Days[d] = s) * Day

\* Date.prototype.setHours(h, m, s): the local day of the instant is kept,
\* the local time of day is replaced, the milliseconds are left as they were
setHours(t, zone, h, m, s) ==
  LET local == t + zone
  IN  (local \div Day) * Day + ((h * 60 + m) * 60 + s) * Second + (local % Second) - zone

\* String.prototype.includes
Includes(s, t) == \E i \in 0..(Len(s) - Len(t)) : SubSeq(s, i + 1, i + Len(t)) = t

\* Array.prototype.sort with (a, b) => time(b.createdAt) - time(a.createdAt):
\* newest first, entries of one instant in the order they came in
RECURSIVE SortNewestFirst(_)
SortNewestFirst(data) ==
  IF data = <<>> THEN <<>>
  ELSE LET x == Head(data)
           rest == SortNewestFirst(Tail(data))
           Newer(e) == e.createdAt > x.createdAt
           NotNewer(e) == ~Newer(e)
       IN  SelectSeq(rest, Newer) \o <<x>> \o SelectSeq(rest, NotNewer)

\* the entries GET /api/journal may hold for the user
HistoryEntry(id, title, content, mood, emotions, people, activities, createdAt) ==
  [id |-> id, title |-> title, content |-> content, mood |-> mood,
   tags |-> [emotions |-> emotions, people |-> people, activities |-> activities],
   sentimentScore |-> Whole(0), createdAt |-> createdAt]

HistoryPool ==
  { HistoryEntry(1, <<"Happy">>, <<"the">>, "Happy", <<"joy">>, <<>>, <<>>,
                 2 * Day + 12 * Hour),
    HistoryEntry(2, <<"sad">>, <<"not", " ", "good">>, "Sad", <<>>, <<"Ann">>, <<>>,
                 2 * Day + 23 * Hour + 59 * 60 * Second + 59 * Second + 1),
    HistoryEntry(3, <<"the">>, <<"happy", " ", "7">>, "Happy", <<"joy">>, <<>>, <<"run">>,
                 1 * Day + 23 * Hour) }

\* the lists a server may answer with: entries of the pool, each at most once,
\* in any order
ListsOf(pool, n) ==
  UNION {{list \in [1..k -> pool] : \A i, j \in 1..k : i # j => list[i] # list[j]} :
         k \in 0..n}

SearchTerms == {<<>>, <<"happy">>, <<"Happy">>, <<"the">>, <<"not", " ">>}

\* the filter effect: runs after every render in which entries or a filter
\* changed, and sets filteredEntries
FilterEffect(h) ==
  LET term == toLowerCase(h.searchTerm)
      BySearch(entry) == \/ Includes(toLowerCase(entry.title), term)
                         \/ Includes(toLowerCase(entry.content), term)
      ByMood(entry) == entry.mood = h.selectedMood
      ArrayIncludes(list, x) == \E i \in DOMAIN list : list[i] = x
      ByTag(entry) == \/ ArrayIncludes(entry.tags.emotions, h.selectedTag)
                      \/ ArrayIncludes(entry.tags.people, h.selectedTag)
                      \/ ArrayIncludes(entry.tags.activities, h.selectedTag)
      FromStart(entry) == entry.createdAt >= NewDate(h.dateRange.start)
      ToEnd(entry) ==
        entry.createdAt <= setHours(NewDate(h.dateRange.end), h.zone, 23, 59, 59)
      r0 == h.entries
      r1 == IF h.searchTerm # <<>> THEN SelectSeq(r0, BySearch) ELSE r0
      r2 == IF h.selectedMood # "" THEN SelectSeq(r1, ByMood) ELSE r1
      r3 == IF h.selectedTag # "" THEN SelectSeq(r2, ByTag) ELSE r2
      r4 == IF h.dateRange.start # "" THEN SelectSeq(r3, FromStart) ELSE r3
      r5 == IF h.dateRange.end # "" THEN SelectSeq(r4, ToEnd) ELSE r4
  IN  [h EXCEPT !.filteredEntries = r5]

\* the page after its first render, the request of the mount effect sent
MountedHistory(zone) ==
  [mounted |-> TRUE, zone |-> zone, pending |-> TRUE, loading |-> TRUE, error |-> "",
   entries |-> <<>>, filteredEntries |-> <<>>,
   searchTerm |-> <<>>, selectedMood |-> "", selectedTag |-> "",
   dateRange |-> [start |-> "", end |-> ""]]

\* the options of the two selects
moodOptions(h) == {h.entries[i].mood : i \in DOMAIN h.entries} \ {""}

tagOptions(h) ==
  UNION {{t[k] : k \in DOMAIN t} :
         t \in UNION {{h.entries[i].tags.emotions, h.entries[i].tags.people,
                       h.entries[i].tags.activities} : i \in DOMAIN h.entries}} \ {""}

\* GET /api/journal is answered with data
FetchEntriesArrives(data) ==
  /\ history.mounted /\ history.pending
  /\ history' = FilterEffect([history EXCEPT !.pending = FALSE, !.loading = FALSE,
                                             !.entries = SortNewestFirst(data),
                                             !.filteredEntries = SortNewestFirst(data)])
  /\ UNCHANGED <<scorerVars, entries, page, journalVars, usersVars, auth, dashboard>>

\* GET /api/journal fails
FetchEntriesFails ==
  /\ history.mounted /\ history.pending
  /\ history' = [history EXCEPT !.pending = FALSE, !.loading = FALSE,
                                !.error = "Failed to fetch journal entries"]
  /\ UNCHANGED <<scorerVars, entries, page, journalVars, usersVars, auth, dashboard>>

\* the user edits one filter control; the controls are rendered once loading is over
SetFilter(searchTerm, selectedMood, selectedTag, dateRange) ==
  /\ history.mounted /\ ~history.loading
  /\ history' = FilterEffect([history EXCEPT !.searchTerm = searchTerm,
                                             !.selectedMood = selectedMood,
                                             !.selectedTag = selectedTag,
                                             !.dateRange = dateRange])
  /\ UNCHANGED <<scorerVars, entries, page, journalVars, usersVars, auth, dashboard>>

setSearchTerm(value) ==
  SetFilter(value, history.selectedMood, history.selectedTag, history.dateRange)

setSelectedMood(value) ==
  /\ value \in moodOptions(history) \cup {""}
  /\ SetFilter(history.searchTerm, value, history.selectedTag, history.dateRange)

setSelectedTag(value) ==
  /\ value \in tagOptions(history) \cup {""}
  /\ SetFilter(history.searchTerm, history.selectedMood, value, history.dateRange)

setDateRange(field, value) ==
  SetFilter(history.searchTerm, history.selectedMood, history.selectedTag,
            [history.dateRange EXCEPT ![field] = value])

handleClearFilters == SetFilter(<<>>, "", "", [start |-> "", end |-> ""])

InitHistory ==
  /\ InitModule
  /\ ScorerIdle
  /\ JournalIdle
  /\ UsersIdle
  /\ AuthIdle
  /\ entries = [i \in EntryIds |-> NoEntry]
  /\ page = Unmounted
  /\ dashboard = Unmounted
  /\ history \in {MountedHistory(zone) : zone \in TimeZones}

NextHistory ==
  \/ \E data \in ListsOf(HistoryPool, Cardinality(HistoryPool)) : FetchEntriesArrives(data)
  \/ FetchEntriesFails
  \/ \E value \in SearchTerms : setSearchTerm(value)
  \/ \E value \in moodOptions(history) \cup {""} : setSelectedMood(value)
  \/ \E value \in tagOptions(history) \cup {""} : setSelectedTag(value)
  \/ \E field \in {"start", "end"} : \E value \in {Days[d] : d \in DOMAIN Days} \cup {""} :
       setDateRange(field, value)
  \/ handleClearFilters

SpecHistory == InitHistory /\ [][NextHistory]_vars

\* ------------------------------------------------------------- the Dashboard
\* the lengths of the months of 2025
MonthDays == <<31, 28, 31, 30, 31, 30, 31, 31, 30, 31, 30, 31>>

\* the days of 2025 before month m (0 for January), and of December 2024 for -1
RECURSIVE DaysBefore(_)
DaysBefore(m) ==
  IF m < 0 THEN -31 ELSE IF m = 0 THEN 0 ELSE DaysBefore(m - 1) + MonthDays[m]

\* the calendar date of a day counted from 2025-01-01 (day 0), back to December 2024
DateOf(d) ==
  IF d < 0 THEN [year |-> 2024, month |-> 12, day |-> d + 32]
  ELSE LET m == CHOOSE k \in 0..11 : DaysBefore(k) <= d /\ d < DaysBefore(k + 1)
       IN  [year |-> 2025, month |-> m + 1, day |-> d - DaysBefore(m) + 1]

\* the instant of month/day hh:00 UTC, of 2025 (month 0: December 2024)
At(month, day, hh) == (DaysBefore(month - 1) + day - 1) * Day + hh * Hour

\* Date.prototype.getDate and getMonth, in the zone of the browser
getDate(t, zone) == DateOf((t + zone) \div Day).day

getMonth(t, zone) == DateOf((t + zone) \div Day).month - 1

\* Date.prototype.setDate(d): day d of the local month of t, the time of day
\* kept; d below 1 counts back into the month before
setDate(t, zone, d) == t + (d - getDate(t, zone)) * Day

\* Date.prototype.setMonth(m): the local day number and time of day of t in
\* month m; a day number past the end of month m counts on into the next month
setMonth(t, zone, m) == t + (DaysBefore(m) - DaysBefore(getMonth(t, zone))) * Day

\* toISOString().split('T')[0]: the date in UTC
toISODate(t) == DateOf(t \div Day)

\* Number.prototype.toFixed(2) and parseFloat of it: the nearest multiple of
\* 0.01, the one further from 0 of two nearest
toFixed(x) ==
  IF IsNaN(x) THEN NaN
  ELSE LET n == (2 * Abs(x.num) * 100 + x.den) \div (2 * x.den)
       IN  Ratio(IF x.num < 0 THEN -n ELSE n, 100)

\* the values of an array in the order of their first occurrence: the keys of
\* an object filled in that order
RECURSIVE Keys(_)
Keys(s) ==
  IF s = <<>> THEN <<>>
  ELSE LET init == Keys(SubSeq(s, 1, Len(s) - 1))
           x == s[Len(s)]
       IN  IF \E i \in DOMAIN init : init[i] = x THEN init ELSE Append(init, x)

\* Array.prototype.reverse
Reverse(s) == [i \in 1..Len(s) |-> s[Len(s) + 1 - i]]

\* dayEntries.reduce((sum, entry) => sum + entry.sentimentScore, 0)
RECURSIVE TotalScore(_)
TotalScore(dayEntries) ==
  IF dayEntries = <<>> THEN Whole(0)
  ELSE Plus(TotalScore(SubSeq(dayEntries, 1, Len(dayEntries) - 1)),
            dayEntries[Len(dayEntries)].sentimentScore)

\* processChartData up to the two reverse() calls: dates and sentimentScores
ChartPoints(data, period, clock, zone) ==
  IF Len(data) = 0 THEN Null
  ELSE LET sortedEntries == SortNewestFirst(data)
           timeLimit == IF period = "week"
                        THEN setDate(clock, zone, getDate(clock, zone) - 7)
                        ELSE setMonth(clock, zone, getMonth(clock, zone) - 1)
           InWindow(entry) == entry.createdAt >= timeLimit
           filteredEntries == SelectSeq(sortedEntries, InWindow)
           dateOf == [i \in DOMAIN filteredEntries |-> toISODate(filteredEntries[i].createdAt)]
           keys == Keys(dateOf)
           DayEntries(date) ==
             LET OfDate(entry) == toISODate(entry.createdAt) = date
             IN  SelectSeq(filteredEntries, OfDate)
           avgScore(date) ==
             LET total == TotalScore(DayEntries(date))
             IN  IF IsNaN(total) THEN NaN
                 ELSE Ratio(total.num, total.den * Len(DayEntries(date)))
           dates == [i \in DOMAIN keys |-> <<keys[i].month, keys[i].day>>]
           sentimentScores == [i \in DOMAIN keys |-> toFixed(avgScore(keys[i]))]
       IN  [labels |-> dates, data |-> sentimentScores]

\* without dates.reverse() and sentimentScores.reverse()
processChartDataNewestFirst(data, period, clock, zone) ==
  ChartPoints(data, period, clock, zone)

processChartData(data, period, clock, zone) ==
  LET points == ChartPoints(data, period, clock, zone)
  IN  IF points = Null THEN Null
      ELSE [labels |-> Reverse(points.labels), data |-> Reverse(points.data)]

\* processEmotionTags: the five most frequent emotion tags with their counts,
\* tags of one count in the order of their first occurrence
processEmotionTags(data) ==
  LET RECURSIVE Concat(_)
      Concat(s) == IF s = <<>> THEN <<>> ELSE Head(s).tags.emotions \o Concat(Tail(s))
      all == Concat(data)
      tags == Keys(all)
      Count(tag) == Cardinality({i \in DOMAIN all : all[i] = tag})
      RECURSIVE Sort(_)
      Sort(s) ==
        IF s = <<>> THEN <<>>
        ELSE LET x == Head(s)
                 rest == Sort(Tail(s))
                 More(y) == Count(y) > Count(x)
                 NotMore(y) == ~More(y)
             IN  SelectSeq(rest, More) \o <<x>> \o SelectSeq(rest, NotMore)
      sorted == Sort(tags)
      top == SubSeq(sorted, 1, IF Len(sorted) < 5 THEN Len(sorted) ELSE 5)
  IN  [i \in DOMAIN top |-> [tag |-> top[i], count |-> Count(top[i])]]

\* the entries GET /api/journal may hold for the user
DashboardPool ==
  LET Entry(id, score, emotions, createdAt) ==
        [HistoryEntry(id, <<>>, <<>>, "", emotions, <<>>, <<>>, createdAt)
           EXCEPT !.sentimentScore = score]
  IN  { Entry(1, Ratio(1, 4), <<"joy">>, At(3, 30, 8)),
        Entry(2, Whole(0), <<"joy", "calm">>, At(3, 30, 20)),
        Entry(3, Ratio(1, 3), <<"fear">>, At(3, 12, 23)),
        Entry(4, Whole(0), <<>>, At(3, 12, 10)),
        Entry(5, Whole(2), <<"joy">>, At(3, 1, 10)),
        Entry(6, Ratio(-1, 8), <<"calm">>, At(0, 30, 9)),
        Entry(7, Halves(-3), <<"fear">>, At(0, 10, 9)) }

\* the lists GET /api/journal answers with: newest first
DashboardLists ==
  {list \in ListsOf(DashboardPool, MaxChart) :
     \A i, j \in DOMAIN list : i < j => list[i].createdAt > list[j].createdAt}

\* the instants at which the dashboard may be looked at
Clocks == {At(3, 31, 12), At(4, 1, 1), At(1, 5, 12)}

\* the page after its first render, the request of the effect sent
MountedDashboard(zone) ==
  [mounted |-> TRUE, zone |-> zone, pending |-> TRUE, loading |-> TRUE, error |-> "",
   entries |-> <<>>, chartData |-> Null, topEmotions |-> <<>>, timeFrame |-> "week",
   call |-> Null]

\* GET /api/journal is answered with data while the clock of the browser shows
\* clock; call records the arguments of processChartData
FetchDataArrives(data, clock) ==
  /\ dashboard.mounted /\ dashboard.pending
  /\ \A i \in DOMAIN data : data[i].createdAt <= clock
  /\ dashboard' = [dashboard EXCEPT
       !.pending = FALSE, !.loading = FALSE, !.entries = data,
       !.chartData = processChartData(data, dashboard.timeFrame, clock, dashboard.zone),
       !.topEmotions = processEmotionTags(data),
       !.call = [data |-> data, period |-> dashboard.timeFrame, clock |-> clock]]
  /\ UNCHANGED <<scorerVars, entries, page, journalVars, usersVars, auth, history>>

\* GET /api/journal fails
FetchDataFails ==
  /\ dashboard.mounted /\ dashboard.pending
  /\ dashboard' = [dashboard EXCEPT !.pending = FALSE, !.loading = FALSE,
                                    !.error = "Failed to fetch your journal entries"]
  /\ UNCHANGED <<scorerVars, entries, page, journalVars, usersVars, auth, history>>

\* a click on Week or Month, rendered once loading is over: the effect of
\* [timeFrame] sends the request again
setTimeFrame(period) ==
  /\ dashboard.mounted /\ ~dashboard.loading
  /\ period # dashboard.timeFrame
  /\ dashboard' = [dashboard EXCEPT !.timeFrame = period, !.pending = TRUE, !.loading = TRUE]
  /\ UNCHANGED <<scorerVars, entries, page, journalVars, usersVars, auth, history>>

InitDashboard ==
  /\ InitModule
  /\ ScorerIdle
  /\ JournalIdle
  /\ UsersIdle
  /\ AuthIdle
  /\ entries = [i \in EntryIds |-> NoEntry]
  /\ page = Unmounted
  /\ history = Unmounted
  /\ dashboard \in {MountedDashboard(zone) : zone \in TimeZones}

NextDashboard ==
  \/ \E data \in DashboardLists : \E clock \in Clocks : FetchDataArrives(data, clock)
  \/ FetchDataFails
  \/ \E period \in {"week", "month"} : setTimeFrame(period)

SpecDashboard == InitDashboard /\ [][NextDashboard]_vars

\* ================================================================ claims
Scored == locals.called /\ ~locals.threw

Moods == {"Ecstatic", "Happy", "Content", "Neutral", "Sad", "Depressed", "Very Depressed"}

\* the threshold table of the specification, one row per line
MoodTable ==
  << [n |-> 4, d |-> 1, mood |-> "Ecstatic"],
     [n |-> 2, d |-> 1, mood |-> "Happy"],
     [n |-> 1, d |-> 2, mood |-> "Content"],
     [n |-> -1, d |-> 2, mood |-> "Neutral"],
     [n |-> -2, d |-> 1, mood |-> "Sad"],
     [n |-> -4, d |-> 1, mood |-> "Depressed"] >>

\* the label of the first row s satisfies, top-down; the last label otherwise
FirstRow(s) ==
  LET hits == {i \in DOMAIN MoodTable :
                 s.den > 0 /\ s.num * MoodTable[i].d > MoodTable[i].n * s.den}
  IN IF hits = {} THEN "Very Depressed"
     ELSE MoodTable[CHOOSE i \in hits : \A j \in hits : i <= j].mood

\* C1: the mood analyzeSentiment returns is one of the seven labels and is
\* the label of the first row of the threshold table that the score returned
\* in the same result satisfies.
C1_MoodOfScore ==
  Scored =>
    /\ locals.result.mood \in Moods
    /\ locals.result.mood = FirstRow(locals.result.score)

C1_Witness ==
  /\ Scored
  /\ locals.result.score = Ratio(9, 2)
  /\ locals.result.mood = "Ecstatic"
  /\ res["a"].status = 200

\* C2: every threshold comparison is strict: 4 is Happy, 2 is Content, 0.5 is
\* Neutral, -0.5 is Sad, -2 is Depressed and -4 is Very Depressed.
C2_StrictThresholds ==
  moodOut # NoMood =>
    /\ scoreIn = Whole(4) => moodOut = "Happy"
    /\ scoreIn = Whole(2) => moodOut = "Content"
    /\ scoreIn = Ratio(1, 2) => moodOut = "Neutral"
    /\ scoreIn = Ratio(-1, 2) => moodOut = "Sad"
    /\ scoreIn = Whole(-2) => moodOut = "Depressed"
    /\ scoreIn = Whole(-4) => moodOut = "Very Depressed"

C2_Witness == scoreIn = Whole(4) /\ moodOut = "Happy"

\* C3: a text whose token sequence is empty is scored 0 and "Neutral".
C3_EmptyIsNeutral ==
  (Scored /\ locals.tokens = <<>>) =>
    /\ locals.score = Whole(0)
    /\ locals.result.score = Whole(0)
    /\ locals.result.mood = "Neutral"

\* C4: a request with no text field or with the empty string as text is
\* answered 400 "Text is required" and analyzeSentiment is not called.
C4_TextRequired ==
  (res["a"] # NoResponse /\ req["a"].text \in {Undefined, Str(<<>>)}) =>
    /\ res["a"] = [status |-> 400, body |-> [message |-> "Text is required"]]
    /\ locals = NotCalled

C4_Witness == res["a"].status = 400 /\ req["a"].text = Str(<<>>)

\* C5: every request whose text passes the boundary check is answered 200
\* with a result; analyzeSentiment does not throw.
C5_ScorerNeverFails ==
  (res["a"] # NoResponse /\ ~Falsy(req["a"].text)) =>
    /\ res["a"].status = 200
    /\ Scored

\* the occurrences of the words of a list among the tokens
Occurrences(tokens, words) ==
  Cardinality({i \in DOMAIN tokens : IsWord(tokens[i], words)})

\* C6: the adjustment is 0.5 times the positive keyword occurrences minus
\* 0.5 times the negative keyword occurrences, each occurrence counted; one
\* positive and one negative keyword leave the final score at the base score.
C6_AdjustmentPerOccurrence ==
  Scored =>
    LET pos == Occurrences(locals.tokens, positive)
        neg == Occurrences(locals.tokens, negative)
    IN /\ locals.adjustment = Ratio(pos - neg, 2)
       /\ (pos = 1 /\ neg = 1) =>
            (locals.adjustment = Whole(0) /\ locals.result.score = locals.score)

C6_Witness ==
  /\ Scored
  /\ locals.tokens = << <<"happy">>, <<"happy">> >>
  /\ locals.adjustment = Whole(1)

\* C7: the score returned is the base score plus the adjustment exactly,
\* neither clamped nor rounded, and it is the value determineMood receives;
\* n occurrences of one positive keyword put it n/2 above the base score.
C7_PlainSum ==
  Scored =>
    LET s == locals.result.score
        b == locals.score
        a == locals.adjustment
        n == Occurrences(locals.tokens, positive)
    IN /\ IsNaN(s) <=> IsNaN(b)
       /\ s.num * (b.den * a.den) = s.den * (b.num * a.den + a.num * b.den)
       /\ locals.result.mood = FirstRow(s)
       /\ Occurrences(locals.tokens, negative) = 0 =>
            s.num * (b.den * 2) = s.den * (2 * b.num + n * b.den)

C7_Witness ==
  /\ Scored
  /\ locals.tokens = << <<"wonderful">>, <<"wonderful">> >>
  /\ locals.score = Whole(4)
  /\ locals.result.score = Whole(5)

\* tokens with one more token u in front of position p
InsertAt(tokens, p, u) ==
  SubSeq(tokens, 1, p - 1) \o <<u>> \o SubSeq(tokens, p, Len(tokens))

\* a token that is in neither the polarity lexicon nor a keyword list
Unlisted(token) ==
  ~IsWord(token, DOMAIN Afinn) /\ ~IsWord(token, positive \cup negative)

\* the tokens one or two word atoms make
SomeTokens == {<<w>> : w \in WordAtoms} \cup {<<"the", "7">>, <<"7", "7">>}

\* the tokens of a text that are all unlisted are scored 0 and "Neutral"
UnlistedIsNeutral ==
  (res["a"] # NoResponse /\ req["a"].text.type = "string" /\ tokenize(toLowerCase(req["a"].text.chars)) # <<>>
     /\ \A i \in DOMAIN tokenize(toLowerCase(req["a"].text.chars)) :
          Unlisted(tokenize(toLowerCase(req["a"].text.chars))[i])) =>
    /\ Scored
    /\ res["a"].status = 200
    /\ locals.result = [score |-> Whole(0), mood |-> "Neutral"]

\* adding a token of U anywhere changes neither the summed polarity nor
\* the adjustment
AddingChangesNothing(U) ==
  Scored =>
    \A u \in U : \A p \in 1..(Len(locals.tokens) + 1) :
      LET more == InsertAt(locals.tokens, p, u)
      IN /\ SumPolarity(more, 1, 1, 0) = SumPolarity(locals.tokens, 1, 1, 0)
         /\ AdjustmentHalves(more, 1, 0) = AdjustmentHalves(locals.tokens, 1, 0)

SameTextSameResult ==
  \A c, d \in Callers :
    (/\ req[c] # NoRequest /\ req[d] # NoRequest
     /\ res[c] # NoResponse /\ res[d] # NoResponse
     /\ req[c].text = req[d].text) => res[c] = res[d]

ScoredVerbatim(e) ==
  LET r == analyzeSentiment(e.content)
  IN /\ e.sentimentScore = Num(r.result.score)
     /\ e.mood = Str(<<r.result.mood>>)

\* C10: every entry saved through the journal page carries
\* analyzeSentiment(content) of the content saved with it.
C10_SavedScoreIsScoreOfContent ==
  \A i \in EntryIds : entries[i] # NoEntry => ScoredVerbatim(entries[i])

\* C12: the positive and the negative keyword set are disjoint: for every
\* token at most one of the two adjustment branches fires.
C12_KeywordSetsDisjoint ==
  /\ positive \cap negative = {}
  /\ Scored =>
       \A i \in DOMAIN locals.tokens :
         LET t == locals.tokens[i]
             one == AdjustmentHalves(<<t>>, 1, 0)
         IN /\ ~(IsWord(t, positive) /\ IsWord(t, negative))
            /\ one = (IF IsWord(t, positive) THEN 1
                      ELSE IF IsWord(t, negative) THEN -1 ELSE 0)

C12_Witness ==
  /\ Scored
  /\ locals.tokens = << <<"happy">>, <<"sad">> >>
  /\ locals.adjustment = Whole(0)

\* C13: POST /journal/analyze with "I am so happy and excited today" is
\* answered 200 with an adjustment of exactly +1.0 (two positive hits, no
\* negative hit), a score above 0 and a mood among Content, Happy, Ecstatic.
C13_EndToEnd ==
  (res["a"] # NoResponse /\ req["a"].text = Str(EndToEndText)) =>
    /\ res["a"].status = 200
    /\ Scored
    /\ Occurrences(locals.tokens, positive) = 2
    /\ Occurrences(locals.tokens, negative) = 0
    /\ locals.adjustment = Whole(1)
    /\ GreaterThan(locals.result.score, 0, 1)
    /\ res["a"].body.score = Num(locals.result.score)
    /\ res["a"].body.mood \in {"Content", "Happy", "Ecstatic"}

C13_Witness ==
  /\ Scored
  /\ req["a"].text = Str(EndToEndText)
  /\ Len(locals.tokens) = 7
  /\ res["a"] = [status |-> 200, body |-> [score |-> Num(Ratio(13, 7)), mood |-> "Content"]]

\* C11: every stored entry's mood is the threshold-table label of its own
\* sentimentScore.
C11_StoredMoodIsMoodOfScore ==
  \A i \in EntryIds :
    Found(entries, i) =>
      entries[i].mood = Str(<<determineMood(entries[i].sentimentScore.val)>>)

\* a step that serves a request to the journal routes
Served == api' # api \/ entries' # entries

\* C14: a GET, PUT or DELETE of /api/journal/:id by a user other than the
\* entry's owner is answered 403 "Not authorized" and leaves the entry as it
\* is; an entry is read, modified or removed only by a request of its owner,
\* and the owner of an entry never changes.
C14_Step ==
  /\ \A i \in EntryIds :
       Found(entries, i) =>
         /\ Found(entries', i) => entries'[i].user = entries[i].user
         /\ entries'[i] # entries[i] =>
              /\ api'.method \in {"PUT", "DELETE"}
              /\ api'.id = i
              /\ api'.user = entries[i].user
  /\ (Served /\ api'.method \in {"GET", "PUT", "DELETE"} /\ Found(entries, api'.id)) =>
       IF api'.user # entries[api'.id].user
       THEN /\ api'.status = 403
            /\ api'.message = "Not authorized"
            /\ entries' = entries
            /\ api'.method = "GET" => api'.doc = NoEntry
       ELSE api'.status # 403
  /\ (Served /\ api'.method = "GET" /\ api'.status = 200) =>
       /\ api'.doc = entries[api'.id]
       /\ api'.doc.user = api'.user

C14_OwnerIsolation == [][C14_Step]_vars

C14_Witness ==
  /\ api.method = "PUT"
  /\ api.body.sentimentScore = Num(Whole(0))
  /\ api.status = 403
  /\ Found(entries, api.id)
  /\ entries[api.id].user # api.user
  /\ entries[api.id].sentimentScore = Num(Whole(5))

\* C15: GET /api/journal answers with exactly the stored entries of the
\* requesting user, each once, ordered by createdAt from newest to oldest.
C15_ListIsOwnNewestFirst ==
  api.method = "LIST" =>
    /\ api.status = 200
    /\ {api.list[k].id : k \in DOMAIN api.list} =
         {i \in EntryIds : Found(entries, i) /\ entries[i].user = api.user}
    /\ \A k, l \in DOMAIN api.list : k # l => api.list[k].id # api.list[l].id
    /\ \A k \in DOMAIN api.list : api.list[k].doc = entries[api.list[k].id]
    /\ \A k, l \in DOMAIN api.list :
         k < l => api.list[k].doc.createdAt >= api.list[l].doc.createdAt

C15_Witness ==
  /\ api.method = "LIST"
  /\ Len(api.list) = 2
  /\ api.list[1].id = 2 /\ api.list[1].doc.createdAt = 1
  /\ api.list[2].id = 1 /\ api.list[2].doc.createdAt = 0

\* a list that leaves out another user's entry
C15_WitnessOthers ==
  /\ api.method = "LIST"
  /\ Len(api.list) = 1
  /\ \E i \in EntryIds : Found(entries, i) /\ entries[i].user # api.user

\* a field that is missing or empty
MissingOrEmpty(v) == v \in {Undefined, Null, Str(<<>>)}

\* a POST with title and content that created exactly one entry, of the
\* requester, with the defaults for what the body omits
Created(b) ==
  /\ api'.status = 201
  /\ \E i \in EntryIds :
       /\ entries[i] = NoEntry
       /\ Found(entries', i)
       /\ \A j \in EntryIds \ {i} : entries'[j] = entries[j]
       /\ entries'[i].user = api'.user
       /\ entries'[i].content = b.content
       /\ entries'[i].sentimentScore =
            (IF MissingOrEmpty(b.sentimentScore) THEN Num(Whole(0)) ELSE b.sentimentScore)
       /\ entries'[i].mood =
            (IF MissingOrEmpty(b.mood) THEN Str(<<"Neutral">>) ELSE b.mood)
       /\ \A f \in {"emotions", "people", "activities"} :
            entries'[i].tags[f] =
              (IF TagList(b.tags, f) = Undefined THEN Arr(<<>>) ELSE TagList(b.tags, f))

\* C16: POST /api/journal with a missing or empty title or content is
\* answered 400 "Title and content are required" and creates no entry;
\* every other POST creates exactly one entry of the requester, with score
\* 0, mood "Neutral" and empty tag lists for what the body omits, and is
\* answered 201.
C16_Step ==
  (Served /\ api'.method = "POST") =>
    IF MissingOrEmpty(api'.body.title) \/ MissingOrEmpty(api'.body.content)
    THEN /\ api'.status = 400
         /\ api'.message = "Title and content are required"
         /\ entries' = entries
    ELSE Created(api'.body)

C16_PostValidatesAndDefaults == [][C16_Step]_vars

\* C17: a PUT by the owner keeps title, content, mood and each tag list
\* when the body omits them, keeps sentimentScore when it is undefined and
\* overwrites it when given (0 included), and never changes user and
\* createdAt; the save sets updatedAt, and a rejected update changes nothing.
C17_Step ==
  (Served /\ api'.method = "PUT" /\ Found(entries, api'.id)
     /\ entries[api'.id].user = api'.user) =>
    LET b == api'.body
        old == entries[api'.id]
        new == entries'[api'.id]
    IN IF api'.status = 200
       THEN /\ \A j \in EntryIds \ {api'.id} : entries'[j] = entries[j]
            /\ new.user = old.user
            /\ new.createdAt = old.createdAt
            /\ new.updatedAt = now
            /\ new.title = (IF MissingOrEmpty(b.title) THEN old.title
                            ELSE Str(Trim(b.title.chars)))
            /\ new.content = (IF MissingOrEmpty(b.content) THEN old.content ELSE b.content)
            /\ new.mood = (IF MissingOrEmpty(b.mood) THEN old.mood ELSE b.mood)
            /\ new.sentimentScore =
                 (IF b.sentimentScore = Undefined THEN old.sentimentScore
                  ELSE b.sentimentScore)
            /\ \A f \in {"emotions", "people", "activities"} :
                 new.tags[f] = (IF TagList(b.tags, f) = Undefined THEN old.tags[f]
                                ELSE TagList(b.tags, f))
       ELSE /\ api'.status = 500
            /\ entries' = entries

C17_PutFrame == [][C17_Step]_vars

C17_Witness ==
  /\ api.method = "PUT" /\ api.status = 200
  /\ api.body = Body(Undefined, Undefined, Num(Whole(0)), Undefined, Undefined)
  /\ entries[api.id].user = api.user
  /\ entries[api.id].title = Str(<<"the">>)
  /\ entries[api.id].sentimentScore = Num(Whole(0))
  /\ entries[api.id].mood = Str(<<"Sad">>)
  /\ entries[api.id].tags = Tags(Arr(<<"joy">>), Arr(<<>>), Arr(<<"the">>))
  /\ entries[api.id].createdAt = 0
  /\ entries[api.id].updatedAt = 1

\* C18: once DELETE /api/journal/:id has answered "Entry removed" the entry
\* is absent from the collection and stays absent; a GET, PUT or DELETE of
\* an id without an entry is answered 404 "Entry not found" whoever asks,
\* and GET /api/journal lists no such id.
C18_Step ==
  /\ (Served /\ api'.method = "DELETE" /\ api'.message = "Entry removed") =>
       /\ api'.status = 200
       /\ Found(entries, api'.id)
       /\ entries[api'.id].user = api'.user
       /\ ~Found(entries', api'.id)
       /\ \A j \in EntryIds \ {api'.id} : entries'[j] = entries[j]
  /\ \A i \in EntryIds : entries[i] = Removed => entries'[i] = Removed
  /\ (Served /\ api'.method \in {"GET", "PUT", "DELETE"} /\ ~Found(entries, api'.id)) =>
       /\ api'.status = 404
       /\ api'.message = "Entry not found"
       /\ entries' = entries
  /\ (Served /\ api'.method = "LIST") =>
       \A k \in DOMAIN api'.list : Found(entries, api'.list[k].id)

C18_RemovedStaysRemoved == [][C18_Step]_vars

C18_Witness ==
  /\ api.method = "GET"
  /\ api.status = 404
  /\ entries[api.id] = Removed
  /\ \E i \in EntryIds : Found(entries, i)

\* the DELETE that removed an entry
C18_WitnessDelete ==
  /\ api.method = "DELETE"
  /\ api.message = "Entry removed"
  /\ entries[api.id] = Removed

\* C19: starting from distinct emails, after any interleaving of
\* PUT /api/users/me requests no two users hold the same email.
C19_EmailsDistinct ==
  \A u, v \in DOMAIN users.docs :
    (u # v /\ ~Falsy(users.docs[u].email)) => users.docs[u].email # users.docs[v].email

\* C20: in every state of the AuthProvider with no auth request in flight,
\* token = null implies user = null.
C20_NoTokenNoUser ==
  (auth.mounted /\ auth.requests = {} /\ auth.token = Null) => auth.user = Null

\* the session is cleared
Cleared(a) == a.token = Null /\ a.user = Null /\ a.storage = Null

\* C21: once cleared (as logout() leaves it), token, user and the
\* localStorage token stay null until a login or register call made after
\* the logout succeeds, whatever response to an earlier request arrives.
C21_Step ==
  (auth.mounted /\ Cleared(auth) /\ ~Cleared(auth')) =>
    \E r \in auth.requests :
      /\ r.kind \in {"login", "register"}
      /\ ~r.stale
      /\ r \notin auth'.requests
      /\ auth'.token = TokenOf(r.account)
      /\ auth'.storage = TokenOf(r.account)
      /\ auth'.user = UserOf(r.account)

C21_LogoutStaysCleared == [][C21_Step]_vars

\* an answered request: one that is in flight before the step and not after
Answered(r) ==
  /\ r \in auth.requests
  /\ ~\E q \in auth'.requests : q.id = r.id /\ q.kind = r.kind /\ q.account = r.account

\* the answer was the token and the user of the account
Succeeded(r) ==
  /\ auth'.token = TokenOf(r.account)
  /\ auth'.storage = TokenOf(r.account)
  /\ auth'.user = UserOf(r.account)

\* the answer was a failure: error is the server's message or the default
\* one, the same is thrown, and the session is as it was
Failed(r) ==
  /\ auth'.error \in (ErrorMessages \ {Undefined})
                       \cup {IF r.kind = "login"
                             THEN Str(<<"Login failed. Please try again.">>)
                             ELSE Str(<<"Registration failed. Please try again.">>)}
  /\ auth'.thrown = auth'.error
  /\ auth'.token = auth.token
  /\ auth'.user = auth.user
  /\ auth'.storage = auth.storage

\* C22: every answer to a user fetch, login or register sets loading to
\* false, and every request is answered; with no request in flight loading
\* is false; a failed login or register sets error to the server's message
\* or the default one, throws it, and leaves token, user and localStorage
\* as they were.
C22_Step ==
  \A r \in auth.requests :
    Answered(r) =>
      /\ ~auth'.loading
      /\ r.kind \in {"login", "register"} => Succeeded(r) \/ Failed(r)

C22_LoadingTerminates ==
  /\ [](auth.requests = {} => ~auth.loading)
  /\ [][C22_Step]_vars
  /\ \A kind \in {"fetch", "login", "register"} :
       (\E r \in auth.requests : r.kind = kind) ~> ~auth.loading

\* a login that failed with the default message, nothing else in flight
C22_Witness ==
  /\ auth.mounted
  /\ auth.requests = {}
  /\ ~auth.loading
  /\ auth.thrown = Str(<<"Login failed. Please try again.">>)
  /\ auth.error = auth.thrown
  /\ auth.token = TokenOf("u1")
  /\ auth.user = UserOf("u1")

\* C23: a debounced analyze request is sent only for a content of trimmed
\* length above 10 that is still the content of the form and whose timer
\* ran its full 1000 ms; a change of the content leaves exactly one timer
\* pending, the one of the new content with 1000 ms to go; at most one
\* timer is pending at any time.
C23_Step ==
  /\ page.mounted /\ page'.mounted =>
       /\ \A text \in page'.analyzing \ page.analyzing :
            /\ Length(Trim(text)) > MinLength
            /\ text = page.formData.content
            /\ page'.formData.content = page.formData.content
            /\ [content |-> text, left |-> 0] \in page.timers
       /\ page'.formData.content # page.formData.content =>
            page'.timers = {[content |-> page'.formData.content, left |-> Delay]}
  /\ page'.mounted => Cardinality(page'.timers) <= 1

C23_Debounce == [][C23_Step]_vars

\* a request sent for a content that was typed over an earlier one
C23_Witness ==
  /\ page.mounted
  /\ page.id = 0
  /\ page.formData.content = <<"wonderful", " ", "happy">>
  /\ page.analyzing = {<<"wonderful", " ", "sad">>, <<"wonderful", " ", "happy">>}
  /\ page.timers = {}

\* the calendar days an instant falls on: in UTC, and in the zone of the browser
CalendarDays(t, zone) == {t \div Day, (t + zone) \div Day}

\* the day a date string names
DayIndex(s) == CHOOSE d \in DOMAIN Days : Days[d] = s

\* day is within the start/end dates that are set
WithinDates(h, day) ==
  /\ h.dateRange.start # "" => day >= DayIndex(h.dateRange.start)
  /\ h.dateRange.end # "" => day <= DayIndex(h.dateRange.end)

\* text holds term somewhere, letter case ignored
FoundIn(text, term) ==
  \E i \in 0..(Len(text) - Len(term)) :
    \A k \in 1..Len(term) : LowerAtom(text[i + k]) = LowerAtom(term[k])

\* the entry passes the search, mood and tag filters that are active
PassesTextFilters(h, entry) ==
  /\ h.searchTerm # <<>> => FoundIn(entry.title, h.searchTerm) \/ FoundIn(entry.content, h.searchTerm)
  /\ h.selectedMood # "" => entry.mood = h.selectedMood
  /\ h.selectedTag # "" =>
       \E list \in {entry.tags.emotions, entry.tags.people, entry.tags.activities} :
         \E k \in DOMAIN list : list[k] = h.selectedTag

NoFilterActive(h) ==
  /\ h.searchTerm = <<>>
  /\ h.selectedMood = ""
  /\ h.selectedTag = ""
  /\ h.dateRange = [start |-> "", end |-> ""]

\* C24: once the entries are loaded, filteredEntries is the subsequence of
\* entries, in the same order, of the entries that satisfy every active filter:
\* an entry that passes the search, mood and tag filters and whose createdAt is
\* within the start/end dates on its calendar day (in UTC and in the zone of the
\* browser alike) is listed, a listed entry passes them and is within the dates
\* on its calendar day (in UTC or in the zone of the browser), and with no
\* filter active, as after handleClearFilters, filteredEntries equals entries.
C24_FilteredIsMatching ==
  (history.mounted /\ ~history.loading) =>
    LET h == history
        Listed(entry) == \E i \in DOMAIN h.filteredEntries : h.filteredEntries[i] = entry
    IN  /\ h.filteredEntries = SelectSeq(h.entries, Listed)
        /\ \A i \in DOMAIN h.entries :
             LET entry == h.entries[i]
                 days == CalendarDays(entry.createdAt, h.zone)
             IN  /\ (PassesTextFilters(h, entry) /\ \A day \in days : WithinDates(h, day))
                      => Listed(entry)
                 /\ Listed(entry)
                      => (PassesTextFilters(h, entry) /\ \E day \in days : WithinDates(h, day))
        /\ NoFilterActive(h) => h.filteredEntries = h.entries

\* the instants a window of one month before clock may start at: the same day
\* number and time of day in the month before where that month has the day, and
\* 28 to 31 days back otherwise
MonthStarts(clock, zone) ==
  LET back == {clock - k * Day : k \in 28..31}
      same == {t \in back : getDate(t, zone) = getDate(clock, zone)}
  IN  IF same # {} THEN same ELSE back

\* v is mean rounded to two decimals
RoundedTo2(v, mean) ==
  /\ 100 % v.den = 0
  /\ 200 * Abs(v.num * mean.den - mean.num * v.den) <= v.den * mean.den

\* the arithmetic mean of the sentimentScore of a set of entries
MeanScore(set) ==
  LET RECURSIVE Total(_)
      Total(rest) == IF rest = {} THEN Whole(0)
                     ELSE LET entry == CHOOSE x \in rest : TRUE
                          IN  Plus(entry.sentimentScore, Total(rest \ {entry}))
      total == Total(set)
  IN  Ratio(total.num, total.den * Cardinality(set))

\* date a is before date b
Before(a, b) ==
  a.year * 10000 + a.month * 100 + a.day < b.year * 10000 + b.month * 100 + b.day

C25_WitnessWindow ==
  /\ dashboard.mounted /\ dashboard.call # Null /\ dashboard.chartData # Null
  /\ \E i \in DOMAIN dashboard.call.data :
       dashboard.call.data[i].createdAt < dashboard.call.clock - 31 * Day
  /\ Len(dashboard.chartData.labels) >= 1

====
